---------------------------- MODULE Spec2Model ----------------------------
(***************************************************************************)
(* The finance dashboard of RelatorioFinanceiro-FrontEnd: the view-state   *)
(* controller (component FinanceDashboard) and the two-call API client.    *)
(*                                                                         *)
(* Two versions of the component are in the repository.  Spec models the   *)
(* API-backed one (src/unnamed/part_002); SpecDemo models                  *)
(* src/src/components/FinanceDashboard.tsx, whose loadData stores mock     *)
(* data and whose delete call is commented out.  The derived view          *)
(* (getFilteredTransactions, getCategories, the render gates) is the same  *)
(* code in both.                                                           *)
(*                                                                         *)
(* Text (descriptions, categories, search terms) is a sequence of          *)
(* one-character strings, so that toLowerCase and includes are computed.   *)
(* Identifiers (userId, _id) are atoms.  createdAt is the number           *)
(* new Date(createdAt).getTime() yields.                                   *)
(*                                                                         *)
(* A step of the model is one run of a handler (or of the continuation of  *)
(* an await) followed by the render React commits for it; the render       *)
(* matters to the state because getFilteredTransactions sorts with         *)
(* Array.prototype.sort, which sorts the array it is given in place.       *)
(***************************************************************************)
EXTENDS Naturals, Integers, Sequences, FiniteSets, Bags, TLC

\* ------------------------------------------------------------------ bounds

\* Confirmed deletes per run (each may trigger one reload).
MaxDeletes == 2

\* ------------------------------------------------------------------- text

\* String.prototype.toLowerCase on the characters the data uses.
LowerChar(c) ==
    CASE c = "A" -> "a"
      [] c = "E" -> "e"
      [] c = "M" -> "m"
      [] c = "S" -> "s"
      [] c = "T" -> "t"
      [] OTHER -> c

toLowerCase(s) == [i \in 1..Len(s) |-> LowerChar(s[i])]

\* String.prototype.includes: needle occurs in hay as a contiguous run.
includes(hay, needle) ==
    \E i \in 0..(Len(hay) - Len(needle)) :
        SubSeq(hay, i + 1, i + Len(needle)) = needle

\* JavaScript truthiness of a text value: the empty string is falsy.
TruthyText(s) == s # <<>>

\* ------------------------------------------------------------ data values

ViewModes == {"dashboard", "expenses", "income", "transactions"}

Mercado == <<"M", "e", "r", "c">>
Camera  == <<"c", "a", "m">>
Arma    == <<"A", "r", "m", "a">>
CatAm   == <<"A", "m">>
CatMe   == <<"M", "e">>
CatLowerAm == <<"a", "m">>
Salario == <<"S", "a", "l">>
Alimentacao == <<"A", "l", "i">>
Trabalho == <<"T", "r", "a">>

Categories == {CatAm, CatMe, CatLowerAm, Alimentacao, Trabalho}

Tx(id, type, amount, description, category, createdAt) ==
    [_id |-> id, type |-> type, amount |-> amount, description |-> description,
     category |-> category, createdAt |-> createdAt]

T1 == Tx("1", "expense", 50, Mercado, CatAm, 2)
T2 == Tx("2", "income", 1000, Arma, CatMe, 3)
T3 == Tx("3", "expense", 30, Camera, CatLowerAm, 2)
T4 == Tx("4", "income", 20, Camera, CatAm, 1)

\* The summary the backend computes for a list; the client never computes it.
RECURSIVE SumAmounts(_)
SumAmounts(list) ==
    IF list = <<>> THEN 0 ELSE Head(list).amount + SumAmounts(Tail(list))

BackendSummary(list) ==
    LET IsIncome(t) == t.type = "income"
        IsExpense(t) == t.type = "expense"
        cats == {list[i].category : i \in 1..Len(list)}
    IN  [totalIncome |-> SumAmounts(SelectSeq(list, IsIncome)),
         totalExpenses |-> SumAmounts(SelectSeq(list, IsExpense)),
         balance |-> SumAmounts(SelectSeq(list, IsIncome))
                     - SumAmounts(SelectSeq(list, IsExpense)),
         categorySummary |->
             [c \in cats |-> LET InCat(t) == t.category = c
                             IN  SumAmounts(SelectSeq(list, InCat))],
         transactionCount |-> Len(list)]

\* useState<Summary | null>(null): the null summary.
NullSummary == [isNull |-> TRUE]

\* ----------------------------------------------------------- derived view

\* The comparator with its operands exchanged: oldest first.
compareAscending(a, b) == a.createdAt - b.createdAt

\* The comparator of the sort: (a, b) => time(b) - time(a).
compare(a, b) == b.createdAt - a.createdAt

\* Array.prototype.sort with that comparator: stable, so an element goes
\* after every element the comparator does not place behind it.
\* InsertSorted placing an element ahead of those it compares equal to: a
\* sort that is not stable.
RECURSIVE InsertSortedBeforeEqual(_, _)
InsertSortedBeforeEqual(x, sorted) ==
    IF sorted = <<>> THEN <<x>>
    ELSE IF compare(Head(sorted), x) < 0
         THEN <<Head(sorted)>> \o InsertSortedBeforeEqual(x, Tail(sorted))
         ELSE <<x>> \o sorted

RECURSIVE InsertSorted(_, _)
InsertSorted(x, sorted) ==
    IF sorted = <<>> THEN <<x>>
    ELSE IF compare(Head(sorted), x) <= 0
         THEN <<Head(sorted)>> \o InsertSorted(x, Tail(sorted))
         ELSE <<x>> \o sorted

RECURSIVE sort(_)
sort(list) ==
    IF list = <<>> THEN <<>>
    ELSE InsertSorted(list[Len(list)], sort(SubSeq(list, 1, Len(list) - 1)))

\* ViewFilter with the income branch lost: the income view is not filtered.
ViewFilterNoIncome(list, view) ==
    LET IsExpense(t) == t.type = "expense"
    IN  IF view = "expenses" THEN SelectSeq(list, IsExpense) ELSE list

ViewFilter(list, view) ==
    LET IsExpense(t) == t.type = "expense"
        IsIncome(t) == t.type = "income"
    IN  IF view = "expenses" THEN SelectSeq(list, IsExpense)
        ELSE IF view = "income" THEN SelectSeq(list, IsIncome)
        ELSE list

\* SearchFilter comparing the text as written: toLowerCase is lost.
SearchFilterCaseSensitive(list, term) ==
    LET Matches(t) ==
            \/ includes(t.description, term)
            \/ includes(t.category, term)
    IN  IF TruthyText(term) THEN SelectSeq(list, Matches) ELSE list

SearchFilter(list, term) ==
    LET Matches(t) ==
            \/ includes(toLowerCase(t.description), toLowerCase(term))
            \/ includes(toLowerCase(t.category), toLowerCase(term))
    IN  IF TruthyText(term) THEN SelectSeq(list, Matches) ELSE list

\* CategoryFilter comparing lower-cased text instead of ===.
CategoryFilterIgnoreCase(list, cat) ==
    LET InCat(t) == toLowerCase(t.category) = toLowerCase(cat)
    IN  IF TruthyText(cat) THEN SelectSeq(list, InCat) ELSE list

CategoryFilter(list, cat) ==
    LET InCat(t) == t.category = cat
    IN  IF TruthyText(cat) THEN SelectSeq(list, InCat) ELSE list

\* The list getFilteredTransactions returns for the given state.
getFilteredTransactions(list, view, term, cat) ==
    sort(CategoryFilter(SearchFilter(ViewFilter(list, view), term), cat))

\* No filter ran, so `filtered` is still the stored array when sort is called.
SortsStoredArray(view, term, cat) ==
    /\ view \notin {"expenses", "income"}
    /\ ~TruthyText(term)
    /\ ~TruthyText(cat)

\* The distinct categories of the stored list, as the set of options the
\* filter control offers (getCategories below gives their order).
CategorySet(list) == {list[i].category : i \in 1..Len(list)}

\* The UTF-16 code unit of a character the data uses.
CharCode(c) ==
    CASE c = "A" -> 65 [] c = "E" -> 69 [] c = "M" -> 77 [] c = "S" -> 83
      [] c = "T" -> 84 [] c = "a" -> 97 [] c = "c" -> 99 [] c = "e" -> 101
      [] c = "i" -> 105 [] c = "l" -> 108 [] c = "m" -> 109 [] c = "r" -> 114

\* The order of the default sort: strings compared by code units, a proper
\* prefix first.
RECURSIVE TextLess(_, _)
TextLess(a, b) ==
    IF b = <<>> THEN FALSE
    ELSE IF a = <<>> THEN TRUE
    ELSE IF Head(a) # Head(b) THEN CharCode(Head(a)) < CharCode(Head(b))
    ELSE TextLess(Tail(a), Tail(b))

\* categories.sort(): insertion of each text after those not greater.
RECURSIVE InsertText(_, _)
InsertText(x, sorted) ==
    IF sorted = <<>> THEN <<x>>
    ELSE IF TextLess(x, Head(sorted)) THEN <<x>> \o sorted
    ELSE <<Head(sorted)>> \o InsertText(x, Tail(sorted))

RECURSIVE SortTexts(_)
SortTexts(texts) ==
    IF texts = <<>> THEN <<>>
    ELSE InsertText(texts[Len(texts)], SortTexts(SubSeq(texts, 1, Len(texts) - 1)))

\* [...new Set(texts)]: each text once, in the order of first occurrence.
RECURSIVE SpreadOfSet(_)
SpreadOfSet(texts) ==
    IF texts = <<>> THEN <<>>
    ELSE LET front == SpreadOfSet(SubSeq(texts, 1, Len(texts) - 1))
             last == texts[Len(texts)]
         IN  IF \E i \in 1..Len(front) : front[i] = last
             THEN front ELSE Append(front, last)

\* getCategories without the Set: every transaction's category, sorted.
getCategoriesWithDuplicates(list) ==
    SortTexts([i \in 1..Len(list) |-> list[i].category])

\* getCategories: the options of the category select.
getCategories(list) ==
    SortTexts(SpreadOfSet([i \in 1..Len(list) |-> list[i].category]))

\* ------------------------------------------------------- backend responses

T5 == Tx("5", "expense", 10, Arma, CatMe, 5)
T6 == Tx("6", "income", 70, Mercado, CatLowerAm, 4)
T7 == Tx("7", "expense", 5, Camera, CatMe, 6)
T8 == Tx("8", "income", 8, Arma, CatAm, 7)

\* The bodies a GET may return: {transactions, summary}.  (Data("C"), of
\* eight transactions, is a list the derived view is checked on.)
DataNames == {"A", "B", "E"}

Data(name) ==
    CASE name = "A" -> <<T1, T2, T3, T4>>
      [] name = "B" -> <<T4, T1, T6, T3, T5, T2>>
      [] name = "C" -> <<T7, T4, T1, T8, T6, T3, T5, T2>>
      [] OTHER -> <<>>

ResponseBody(name) ==
    [transactions |-> Data(name), summary |-> BackendSummary(Data(name))]

\* What the user may type in the search box.
SearchTerms == {<<>>, <<"A", "M">>}

\* window.location.search, as its list of key/value pairs.
Queries ==
    { <<>>,
      << <<"userId", "u1">> >>,
      << <<"userId", "">> >> }

\* ------------------------------------------------------------------ state

VARIABLES
    locationSearch,    \* the page's query parameters
    mounted,           \* the mount effect has run
    transactions,      \* useState<Transaction[]>([])
    summary,           \* useState<Summary | null>(null)
    loading,           \* useState(true)
    currentView,       \* useState<ViewMode>('dashboard')
    searchTerm,        \* useState('')
    selectedCategory,  \* useState('')
    showBalance,       \* useState(true)
    sidebarOpen,       \* useState(false)
    isConfirmed,       \* the answer to the last window.confirm: "none", "yes", "no"
    pendingDeletes,    \* DELETE requests in flight: a bag of [userId, transactionId, url]
    pendingFetches,    \* GET requests in flight: [seq, url], seq the number of the call
    fetchCalls,        \* GET requests issued so far
    fetchUsers,        \* the userIds GET requests were issued for
    deleteUsers,       \* the userIds DELETE requests were issued for
    deleteCalls,       \* DELETE requests issued so far
    confirmedCount,    \* confirmation prompts the user accepted
    deletesSucceeded,  \* DELETE requests that resolved successfully
    deletesFailed,     \* DELETE requests that failed
    lastResolved,      \* the GET that resolved last: [seq, outcome]
    alerts,            \* window.alert calls: [success |-> n, error |-> m]
    consoleLog         \* the messages console.error was called with

viewVars == <<currentView, searchTerm, selectedCategory, showBalance, sidebarOpen>>
dataVars == <<transactions, summary, loading>>
netVars == <<pendingDeletes, pendingFetches, fetchCalls, fetchUsers, deleteUsers, deleteCalls,
             deletesSucceeded, deletesFailed, lastResolved>>
logVars == <<alerts, consoleLog>>
vars == <<locationSearch, mounted, isConfirmed, confirmedCount,
          viewVars, dataVars, netVars, logVars>>

\* ------------------------------------------------------- user identifier

\* URLSearchParams.get: the first value of the key, or null (<<>>).
ParamsGet(query, key) ==
    LET hits == SelectSeq(query, LAMBDA kv : kv[1] = key)
    IN  IF hits = <<>> THEN <<>> ELSE <<hits[1][2]>>

\* params.get('userId') || 'default_user': null and '' are falsy.
getUserIdFromUrl(query) ==
    LET got == ParamsGet(query, "userId")
    IN  IF got = <<>> \/ got[1] = "" THEN "default_user" ELSE got[1]

userId == getUserIdFromUrl(locationSearch)

\* ------------------------------------------------------------ render gates

\* ScreenOf without the loading gate: the page is rendered while a load runs.
ScreenOfNoLoadingGate(load, uid) ==
    IF uid = "" THEN "denied"
    ELSE "dashboard"

\* Which of the three returns of the component renders.
ScreenOf(load, uid) ==
    IF load THEN "loading"
    ELSE IF uid = "" THEN "denied"
    ELSE "dashboard"

Screen == ScreenOf(loading, userId)

\* The stored array after the render of the given state: the dashboard
\* return calls renderTransactionsList, whose getFilteredTransactions sorts
\* the stored array itself when no filter has copied it.
AfterRender(list, load, view, term, cat) ==
    IF ScreenOf(load, userId) = "dashboard" /\ SortsStoredArray(view, term, cat)
    THEN sort(list)
    ELSE list

\* The list renderTransactionsList gets from getFilteredTransactions.
filteredTransactions ==
    getFilteredTransactions(transactions, currentView, searchTerm, selectedCategory)

DashboardLimit == 5

Min(a, b) == IF a <= b THEN a ELSE b

\* The slice with the limit applied in every view.
DisplayedOfAllViews(list, view) == SubSeq(list, 1, Min(DashboardLimit, Len(list)))

\* slice(0, currentView === 'dashboard' ? 5 : undefined)
DisplayedOf(list, view) ==
    IF view = "dashboard" THEN SubSeq(list, 1, Min(DashboardLimit, Len(list)))
    ELSE list

displayedTransactions == DisplayedOf(filteredTransactions, currentView)

\* The ids of the rows on screen, each with its delete button.
DisplayedIds ==
    LET shown == displayedTransactions
    IN  {shown[i]._id : i \in 1..Len(shown)}

\* renderSummaryCards returns the cards: the dashboard return is rendered
\* and summary is not null.
CardsRendered == Screen = "dashboard" /\ summary # NullSummary

\* The values on the four cards; the balance is masked when showBalance is
\* off.
CardValues ==
    [balance |-> IF showBalance THEN summary.balance ELSE "hidden",
     totalIncome |-> summary.totalIncome,
     totalExpenses |-> summary.totalExpenses,
     transactionCount |-> summary.transactionCount]

\* renderCharts without the test of the category map.
ChartsRenderedForAnySummary ==
    /\ Screen = "dashboard"
    /\ currentView = "dashboard"
    /\ summary # NullSummary

\* currentView === 'dashboard' && renderCharts(), which returns null when
\* summary is null or Object.keys(summary.categorySummary) is empty.
ChartsRendered ==
    /\ Screen = "dashboard"
    /\ currentView = "dashboard"
    /\ summary # NullSummary
    /\ DOMAIN summary.categorySummary # {}

\* The list shows 'Nenhuma transacao encontrada' instead of rows.
EmptyStateRendered == Screen = "dashboard" /\ Len(filteredTransactions) = 0

\* ---------------------------------------------------------- initial state

Init ==
    /\ locationSearch \in Queries
    /\ mounted = FALSE
    /\ transactions = <<>>
    /\ summary = NullSummary
    /\ loading = TRUE
    /\ currentView = "dashboard"
    /\ searchTerm = <<>>
    /\ selectedCategory = <<>>
    /\ showBalance = TRUE
    /\ sidebarOpen = FALSE
    /\ isConfirmed = "none"
    /\ pendingDeletes = EmptyBag
    /\ pendingFetches = {}
    /\ fetchCalls = 0
    /\ fetchUsers = {}
    /\ deleteUsers = {}
    /\ deleteCalls = 0
    /\ confirmedCount = 0
    /\ deletesSucceeded = 0
    /\ deletesFailed = 0
    /\ lastResolved = [seq |-> 0, outcome |-> "none"]
    /\ alerts = [success |-> 0, error |-> 0]
    /\ consoleLog = {}

\* ------------------------------------------------------------- API client

\* The module constant API_URL (each variant of the client sets it from
\* its environment).
API_URL == "API_URL"

\* The template literals of the two calls, as the sequence of their parts.
fetchUrl(uid) == <<API_URL, "/transactions/", uid>>

\* deleteUrl with the two identifiers exchanged.
deleteUrlSwapped(uid, id) == <<API_URL, "/transactions/", id, "/", uid>>

\* `${API_URL}/transactions/${userId}/${transactionId}` for identifiers given
\* as the sequences of their pieces of text: the pieces follow one another in
\* the URL with nothing that marks where an identifier ends.
deleteUrlText(uid, id) == <<API_URL, "/transactions/">> \o uid \o <<"/">> \o id

\* The same for identifiers of one piece each.
deleteUrl(uid, id) == deleteUrlText(<<uid>>, <<id>>)

\* The response axios resolves with for body d; the client returns its data.
AxiosResponse(d) == [status |-> 200, data |-> ResponseBody(d)]

\* The GET in flight for call n, if any, and the others.
PendingSeqs == {q.seq : q \in pendingFetches}
WithoutFetch(n) == {q \in pendingFetches : q.seq # n}

\* The DELETE deleteTransaction(uid, id) puts in flight.
DeleteRequest(uid, id) ==
    [userId |-> uid, transactionId |-> id, url |-> deleteUrl(uid, id)]

\* fetchTransactions(uid): one axios.get, awaited.
fetchTransactions(uid) ==
    /\ fetchCalls' = fetchCalls + 1
    /\ fetchUsers' = fetchUsers \cup {uid}
    /\ pendingFetches' =
           pendingFetches \cup {[seq |-> fetchCalls + 1, url |-> fetchUrl(uid)]}

\* deleteTransaction(uid, id): one axios.delete, awaited.
deleteTransaction(uid, id) ==
    /\ deleteCalls' = deleteCalls + 1
    /\ deleteUsers' = deleteUsers \cup {uid}
    /\ pendingDeletes' = pendingDeletes (+) SetToBag({DeleteRequest(uid, id)})

\* deleteTransaction for identifiers given character by character.
DeleteRequestText(uid, id) ==
    [userId |-> uid, transactionId |-> id, url |-> deleteUrlText(uid, id)]

deleteTransactionText(uid, id) ==
    /\ deleteCalls' = deleteCalls + 1
    /\ deleteUsers' = deleteUsers \cup {uid}
    /\ pendingDeletes' = pendingDeletes (+) SetToBag({DeleteRequestText(uid, id)})

\* ------------------------------------------------------- loadData (API)

\* loadData up to its await: setLoading(true), then the GET is issued.
\* The render that follows shows the loading screen.
loadData ==
    /\ loading' = TRUE
    /\ fetchTransactions(userId)
    /\ UNCHANGED <<transactions, summary>>

\* useEffect(() => { loadData(); }, [loadData])
Mount ==
    /\ ~mounted
    /\ mounted' = TRUE
    /\ loadData
    /\ UNCHANGED <<locationSearch, isConfirmed, confirmedCount, viewVars,
                   pendingDeletes, deleteUsers, deleteCalls, deletesSucceeded,
                   deletesFailed, lastResolved, logVars>>

\* FetchSuccess that also resets the filters and the view when the new list
\* arrives.
FetchSuccessResetsView(n, d) ==
    /\ n \in PendingSeqs
    /\ pendingFetches' = WithoutFetch(n)
    /\ currentView' = "dashboard"
    /\ searchTerm' = <<>>
    /\ selectedCategory' = <<>>
    /\ transactions' = AfterRender(AxiosResponse(d).data.transactions, FALSE,
                                   "dashboard", <<>>, <<>>)
    /\ summary' = AxiosResponse(d).data.summary
    /\ loading' = FALSE
    /\ lastResolved' = [seq |-> n, outcome |-> d]
    /\ UNCHANGED <<locationSearch, mounted, isConfirmed, confirmedCount,
                   showBalance, sidebarOpen,
                   pendingDeletes, fetchCalls, fetchUsers, deleteUsers, deleteCalls,
                   deletesSucceeded, deletesFailed, logVars>>

\* FetchSuccess with a latest-request guard: the body of a load that is not
\* the most recent call is dropped.
FetchSuccessDropsStale(n, d) ==
    /\ n \in PendingSeqs
    /\ pendingFetches' = WithoutFetch(n)
    /\ IF n = fetchCalls
       THEN /\ transactions' = AfterRender(AxiosResponse(d).data.transactions, FALSE,
                                           currentView, searchTerm, selectedCategory)
            /\ summary' = AxiosResponse(d).data.summary
       ELSE /\ transactions' = AfterRender(transactions, FALSE, currentView,
                                           searchTerm, selectedCategory)
            /\ summary' = summary
    /\ loading' = FALSE
    /\ lastResolved' = [seq |-> n, outcome |-> d]
    /\ UNCHANGED <<locationSearch, mounted, isConfirmed, confirmedCount, viewVars,
                   pendingDeletes, fetchCalls, fetchUsers, deleteUsers, deleteCalls,
                   deletesSucceeded, deletesFailed, logVars>>

\* The await of loadData call n resolves with body d: the try block's
\* setTransactions and setSummary, then finally's setLoading(false).
FetchSuccess(n, d) ==
    /\ n \in PendingSeqs
    /\ pendingFetches' = WithoutFetch(n)
    /\ transactions' = AfterRender(AxiosResponse(d).data.transactions, FALSE,
                                   currentView, searchTerm, selectedCategory)
    /\ summary' = AxiosResponse(d).data.summary
    /\ loading' = FALSE
    /\ lastResolved' = [seq |-> n, outcome |-> d]
    /\ UNCHANGED <<locationSearch, mounted, isConfirmed, confirmedCount, viewVars,
                   pendingDeletes, fetchCalls, fetchUsers, deleteUsers, deleteCalls,
                   deletesSucceeded, deletesFailed, logVars>>

\* FetchFailure whose catch block only logs: the stored data is kept.
FetchFailureKeepsData(n) ==
    /\ n \in PendingSeqs
    /\ pendingFetches' = WithoutFetch(n)
    /\ consoleLog' = consoleLog \cup {"Error loading data:"}
    /\ transactions' = AfterRender(transactions, FALSE, currentView, searchTerm,
                                   selectedCategory)
    /\ summary' = summary
    /\ loading' = FALSE
    /\ lastResolved' = [seq |-> n, outcome |-> "error"]
    /\ UNCHANGED <<locationSearch, mounted, isConfirmed, confirmedCount, viewVars,
                   pendingDeletes, fetchCalls, fetchUsers, deleteUsers, deleteCalls,
                   deletesSucceeded, deletesFailed, alerts>>

\* FetchFailure whose catch block retries: it clears the data and issues
\* the GET again.
FetchFailureRetries(n) ==
    /\ n \in PendingSeqs
    /\ pendingFetches' =
           WithoutFetch(n) \cup {[seq |-> fetchCalls + 1, url |-> fetchUrl(userId)]}
    /\ fetchCalls' = fetchCalls + 1
    /\ fetchUsers' = fetchUsers \cup {userId}
    /\ consoleLog' = consoleLog \cup {"Error loading data:"}
    /\ transactions' = <<>>
    /\ summary' = NullSummary
    /\ loading' = TRUE
    /\ lastResolved' = [seq |-> n, outcome |-> "error"]
    /\ UNCHANGED <<locationSearch, mounted, isConfirmed, confirmedCount, viewVars,
                   pendingDeletes, deleteUsers, deleteCalls,
                   deletesSucceeded, deletesFailed, alerts>>

\* FetchFailure without the finally block: loading is left as it is.
FetchFailureNoFinally(n) ==
    /\ n \in PendingSeqs
    /\ pendingFetches' = WithoutFetch(n)
    /\ consoleLog' = consoleLog \cup {"Error loading data:"}
    /\ transactions' = <<>>
    /\ summary' = NullSummary
    /\ loading' = loading
    /\ lastResolved' = [seq |-> n, outcome |-> "error"]
    /\ UNCHANGED <<locationSearch, mounted, isConfirmed, confirmedCount, viewVars,
                   pendingDeletes, fetchCalls, fetchUsers, deleteUsers, deleteCalls,
                   deletesSucceeded, deletesFailed, alerts>>

\* The await of loadData call n rejects: the catch block, then finally.
FetchFailure(n) ==
    /\ n \in PendingSeqs
    /\ pendingFetches' = WithoutFetch(n)
    /\ consoleLog' = consoleLog \cup {"Error loading data:"}
    /\ transactions' = <<>>
    /\ summary' = NullSummary
    /\ loading' = FALSE
    /\ lastResolved' = [seq |-> n, outcome |-> "error"]
    /\ UNCHANGED <<locationSearch, mounted, isConfirmed, confirmedCount, viewVars,
                   pendingDeletes, fetchCalls, fetchUsers, deleteUsers, deleteCalls,
                   deletesSucceeded, deletesFailed, alerts>>

\* ------------------------------------------- handleRemoveTransaction (API)

\* The dashboard is on screen.
UIReady == mounted /\ Screen = "dashboard"

\* The delete buttons on screen: one per displayed row, carrying its _id.
DeleteButtons == IF UIReady THEN DisplayedIds ELSE {}

\* handleRemoveTransaction without the isConfirmed test: the DELETE is
\* issued whatever the answer.
handleRemoveTransactionAnyAnswer(id, answer) ==
    /\ UIReady
    /\ isConfirmed' = (IF answer THEN "yes" ELSE "no")
    /\ confirmedCount' = confirmedCount + (IF answer THEN 1 ELSE 0)
    /\ deleteTransaction(userId, id)
    /\ UNCHANGED <<locationSearch, mounted, viewVars, dataVars, pendingFetches,
                   fetchCalls, fetchUsers, deletesSucceeded, deletesFailed,
                   lastResolved, logVars>>

\* The delete button of a displayed row (id is one of DeleteButtons):
\* handleRemoveTransaction(id), from window.confirm (which blocks the page until it is answered) to the
\* handler's return (answer false) or its await of deleteTransaction.
handleRemoveTransaction(id, answer) ==
    /\ UIReady
    /\ answer => confirmedCount < MaxDeletes
    /\ isConfirmed' = (IF answer THEN "yes" ELSE "no")
    /\ IF answer
       THEN /\ confirmedCount' = confirmedCount + 1
            /\ deleteTransaction(userId, id)
            /\ UNCHANGED <<locationSearch, mounted, viewVars, dataVars,
                           pendingFetches, fetchCalls, fetchUsers,
                           deletesSucceeded, deletesFailed, lastResolved, logVars>>
       ELSE UNCHANGED <<locationSearch, mounted, confirmedCount, viewVars,
                        dataVars, netVars, logVars>>

\* DeleteSuccess that drops the deleted row from the stored list itself
\* instead of reloading: the summary is left as it was.
DeleteSuccessRemovesLocally(r) ==
    /\ BagIn(r, pendingDeletes)
    /\ pendingDeletes' = pendingDeletes (-) SetToBag({r})
    /\ deletesSucceeded' = deletesSucceeded + 1
    /\ LET IsKept(t) == t._id # r.transactionId
       IN  transactions' = AfterRender(SelectSeq(transactions, IsKept), loading,
                                       currentView, searchTerm, selectedCategory)
    /\ alerts' = [alerts EXCEPT !.success = @ + 1]
    /\ UNCHANGED <<locationSearch, mounted, isConfirmed, confirmedCount, viewVars,
                   summary, loading, pendingFetches, fetchCalls, fetchUsers,
                   deleteUsers, deleteCalls, deletesFailed, lastResolved, consoleLog>>

\* The awaited DELETE r resolves: loadData() is called (not awaited), then
\* the success alert.
DeleteSuccess(r) ==
    /\ BagIn(r, pendingDeletes)
    /\ pendingDeletes' = pendingDeletes (-) SetToBag({r})
    /\ deletesSucceeded' = deletesSucceeded + 1
    /\ loadData
    /\ alerts' = [alerts EXCEPT !.success = @ + 1]
    /\ UNCHANGED <<locationSearch, mounted, isConfirmed, confirmedCount, viewVars,
                   deleteUsers, deleteCalls, deletesFailed, lastResolved, consoleLog>>

\* DeleteFailure that reloads as the success path does.
DeleteFailureReloads(r) ==
    /\ BagIn(r, pendingDeletes)
    /\ pendingDeletes' = pendingDeletes (-) SetToBag({r})
    /\ deletesFailed' = deletesFailed + 1
    /\ consoleLog' = consoleLog \cup {"Erro ao excluir transacao:"}
    /\ loadData
    /\ alerts' = [alerts EXCEPT !.error = @ + 1]
    /\ UNCHANGED <<locationSearch, mounted, isConfirmed, confirmedCount, viewVars,
                   deleteUsers, deleteCalls, deletesSucceeded, lastResolved>>

\* The awaited DELETE r rejects: the catch block.
DeleteFailure(r) ==
    /\ BagIn(r, pendingDeletes)
    /\ pendingDeletes' = pendingDeletes (-) SetToBag({r})
    /\ deletesFailed' = deletesFailed + 1
    /\ consoleLog' = consoleLog \cup {"Erro ao excluir transacao:"}
    /\ alerts' = [alerts EXCEPT !.error = @ + 1]
    /\ UNCHANGED <<locationSearch, mounted, isConfirmed, confirmedCount, viewVars,
                   dataVars, pendingFetches, fetchCalls, fetchUsers, deleteUsers,
                   deleteCalls, deletesSucceeded, lastResolved>>

\* ----------------------------------------------------------- view handlers

\* The commit of a view-state change: the new values, and the stored array
\* as the render of the new state leaves it.
SetViewState(view, term, cat) ==
    /\ currentView' = view
    /\ searchTerm' = term
    /\ selectedCategory' = cat
    /\ transactions' = AfterRender(transactions, loading, view, term, cat)
    /\ UNCHANGED <<locationSearch, mounted, isConfirmed, confirmedCount, summary,
                   loading, netVars, logVars>>

\* A sidebar item: setCurrentView(v); setSidebarOpen(false).
SidebarNavigate(v) ==
    /\ UIReady
    /\ SetViewState(v, searchTerm, selectedCategory)
    /\ sidebarOpen' = FALSE
    /\ UNCHANGED showBalance

\* A summary card: setCurrentView(v).  Cards exist when summary is not null.
CardNavigate(v) ==
    /\ UIReady
    /\ summary # NullSummary
    /\ SetViewState(v, searchTerm, selectedCategory)
    /\ UNCHANGED <<showBalance, sidebarOpen>>

\* The mobile header's back arrow, rendered off the dashboard view.
MobileBack ==
    /\ UIReady
    /\ currentView # "dashboard"
    /\ SetViewState("dashboard", searchTerm, selectedCategory)
    /\ UNCHANGED <<showBalance, sidebarOpen>>

\* 'Ver todas as transacoes', rendered on the dashboard view when the
\* filtered list has more than 5 entries.
VerTodas ==
    /\ UIReady
    /\ currentView = "dashboard"
    /\ Len(filteredTransactions) > DashboardLimit
    /\ SetViewState("transactions", searchTerm, selectedCategory)
    /\ UNCHANGED <<showBalance, sidebarOpen>>

\* The search box, rendered by renderFilters off the dashboard view.
SetSearchTerm(term) ==
    /\ UIReady
    /\ currentView # "dashboard"
    /\ SetViewState(currentView, term, selectedCategory)
    /\ UNCHANGED <<showBalance, sidebarOpen>>

\* The category select: 'Todas categorias' ('') or one of getCategories().
SetSelectedCategory(cat) ==
    /\ UIReady
    /\ currentView # "dashboard"
    /\ cat \in {<<>>} \cup CategorySet(transactions)
    /\ SetViewState(currentView, searchTerm, cat)
    /\ UNCHANGED <<showBalance, sidebarOpen>>

\* ToggleBalance without stopPropagation: the click also reaches the balance
\* card's onClick, setCurrentView('dashboard').
ToggleBalanceBubbles ==
    /\ UIReady
    /\ summary # NullSummary
    /\ showBalance' = ~showBalance
    /\ SetViewState("dashboard", searchTerm, selectedCategory)
    /\ UNCHANGED sidebarOpen

\* The eye button on the balance card: stopPropagation, then the toggle.
ToggleBalance ==
    /\ UIReady
    /\ summary # NullSummary
    /\ showBalance' = ~showBalance
    /\ UNCHANGED <<locationSearch, mounted, isConfirmed, confirmedCount,
                   currentView, searchTerm, selectedCategory, sidebarOpen,
                   dataVars, netVars, logVars>>

\* The mobile header's menu button: setSidebarOpen(!sidebarOpen).
ToggleSidebar ==
    /\ UIReady
    /\ sidebarOpen' = ~sidebarOpen
    /\ UNCHANGED <<locationSearch, mounted, isConfirmed, confirmedCount,
                   currentView, searchTerm, selectedCategory, showBalance,
                   dataVars, netVars, logVars>>

\* The overlay behind the open sidebar: setSidebarOpen(false).
CloseSidebar ==
    /\ UIReady
    /\ sidebarOpen
    /\ sidebarOpen' = FALSE
    /\ UNCHANGED <<locationSearch, mounted, isConfirmed, confirmedCount,
                   currentView, searchTerm, selectedCategory, showBalance,
                   dataVars, netVars, logVars>>

\* The handlers that change what getFilteredTransactions reads.
FilterStep ==
    \/ \E v \in ViewModes : SidebarNavigate(v)
    \/ \E v \in ViewModes : CardNavigate(v)
    \/ MobileBack
    \/ \E term \in SearchTerms : SetSearchTerm(term)
    \/ \E cat \in {<<>>} \cup Categories : SetSelectedCategory(cat)

\* The handlers of the page chrome: they read and write showBalance and
\* sidebarOpen only, which no request, response or filter reads.
ChromeStep ==
    \/ ToggleBalance
    \/ ToggleSidebar
    \/ CloseSidebar

ViewStep ==
    \/ FilterStep
    \/ ChromeStep

\* ------------------------------------------------- the API-backed component

\* Spec is the data flow of the API-backed component: the mount, the loads,
\* the deletes and the handlers that change the derived view (and, through
\* the in-place sort, the stored array).  The chrome handlers, the same code in both
\* components, run in SpecDemo.

TxIds == {"1", "2", "3", "4", "5", "6", "7", "8"}

DeleteRequests == {DeleteRequest(uid, id) : uid \in {"u1", "default_user"}, id \in TxIds}

Next ==
    \/ Mount
    \/ \E n \in 1..(MaxDeletes + 1), d \in DataNames : FetchSuccess(n, d)
    \/ \E n \in 1..(MaxDeletes + 1) : FetchFailure(n)
    \/ \E id \in DeleteButtons, answer \in BOOLEAN : handleRemoveTransaction(id, answer)
    \/ \E r \in DeleteRequests : DeleteSuccess(r)
    \/ \E r \in DeleteRequests : DeleteFailure(r)
    \/ FilterStep
    \/ VerTodas

Spec == Init /\ [][Next]_vars

\* The whole API-backed page: Spec together with the chrome handlers, over
\* the responses of ChromeData.
ChromeData == {"B", "E"}

NextChrome ==
    \/ Mount
    \/ \E n \in 1..(MaxDeletes + 1), d \in ChromeData : FetchSuccess(n, d)
    \/ \E n \in 1..(MaxDeletes + 1) : FetchFailure(n)
    \/ \E id \in DeleteButtons, answer \in BOOLEAN : handleRemoveTransaction(id, answer)
    \/ \E r \in DeleteRequests : DeleteSuccess(r)
    \/ \E r \in DeleteRequests : DeleteFailure(r)
    \/ ViewStep
    \/ VerTodas

SpecChrome == Init /\ [][NextChrome]_vars

\* The API client alone, called with identifiers of up to MaxIdLen
\* characters over an alphabet with '/': the user id is whatever the query
\* string holds, and the client takes any string.
MaxIdLen == 2
IdChars == {"a", "/"}
Identifiers == UNION {[1..n -> IdChars] : n \in 1..MaxIdLen}

InitUrl == Init /\ locationSearch = <<>>

NextUrl ==
    \E uid \in Identifiers, id \in Identifiers :
        /\ deleteCalls < MaxDeletes
        /\ deleteTransactionText(uid, id)
        /\ UNCHANGED <<locationSearch, mounted, isConfirmed, confirmedCount,
                       viewVars, dataVars, pendingFetches, fetchCalls, fetchUsers,
                       deletesSucceeded, deletesFailed, lastResolved, logVars>>

SpecUrl == InitUrl /\ [][NextUrl]_vars

\* Spec with the scheduling the runtime gives: the mount effect runs after
\* the first render.  (Whether a request resolves is up to the network.)
SpecLive == Init /\ [][Next]_vars /\ WF_vars(Mount)

\* ------------------------------------- the mock-data component (SpecDemo)

\* mockTransactions: both createdAt are new Date().toISOString(), taken one
\* after the other, so the second is the same instant or a later one.
MockTransactions(later) ==
    << Tx("1", "expense", 50, Mercado, Alimentacao, 1),
       Tx("2", "income", 1000, Salario, Trabalho, IF later THEN 2 ELSE 1) >>

MockSummary ==
    [totalIncome |-> 1000, totalExpenses |-> 50, balance |-> 950,
     categorySummary |-> (Alimentacao :> 50) @@ (Trabalho :> 1000),
     transactionCount |-> 2]

\* loadData of the mock-data component: no await, so it runs to its end at
\* once: setLoading(true), the mock data, setLoading(false).
loadDataDemo(later) ==
    /\ transactions' = AfterRender(MockTransactions(later), FALSE,
                                   currentView, searchTerm, selectedCategory)
    /\ summary' = MockSummary
    /\ loading' = FALSE

MountDemo ==
    /\ ~mounted
    /\ mounted' = TRUE
    /\ \E later \in BOOLEAN : loadDataDemo(later)
    /\ UNCHANGED <<locationSearch, isConfirmed, confirmedCount,
                   viewVars, netVars, logVars>>

\* handleRemoveTransaction of the mock-data component: the
\* deleteTransaction call is commented out; on isConfirmed, loadData(), then
\* the success alert.
handleRemoveTransactionDemo(id, answer) ==
    /\ UIReady
    /\ answer => confirmedCount < MaxDeletes
    /\ isConfirmed' = (IF answer THEN "yes" ELSE "no")
    /\ IF answer
       THEN /\ confirmedCount' = confirmedCount + 1
            /\ \E later \in BOOLEAN : loadDataDemo(later)
            /\ alerts' = [alerts EXCEPT !.success = @ + 1]
            /\ UNCHANGED <<locationSearch, mounted, viewVars, netVars, consoleLog>>
       ELSE UNCHANGED <<locationSearch, mounted, confirmedCount, viewVars,
                        dataVars, netVars, logVars>>

NextDemo ==
    \/ MountDemo
    \/ \E id \in DeleteButtons, answer \in BOOLEAN :
          handleRemoveTransactionDemo(id, answer)
    \/ ViewStep

SpecDemo == Init /\ [][NextDemo]_vars

\* ------------------------------------------- the derived view (SpecView)

\* Longest list of the lists the derived view is checked on.
MaxLen == 3

TxUniverse == {T1, T2, T3, T4, T5, T6}

\* The lists of at most n distinct transactions.
ListsUpTo(n) ==
    UNION { { l \in [1..k -> TxUniverse] :
                \A i, j \in 1..k : i # j => l[i] # l[j] } : k \in 0..n }

\* The state after a reload has resolved with an arbitrary list, in any of
\* the views: mount, a load, one confirmed delete, its reload.
InitView ==
    /\ locationSearch = << <<"userId", "u1">> >>
    /\ mounted = TRUE
    /\ currentView \in ViewModes
    /\ searchTerm = <<>>
    /\ selectedCategory = <<>>
    /\ \E l \in ListsUpTo(MaxLen) \cup {Data("B"), Data("C")} :
          /\ transactions = AfterRender(l, FALSE, currentView, searchTerm,
                                        selectedCategory)
          /\ summary = BackendSummary(l)
    /\ loading = FALSE
    /\ showBalance = TRUE
    /\ sidebarOpen = FALSE
    /\ isConfirmed = "yes"
    /\ pendingDeletes = EmptyBag
    /\ pendingFetches = {}
    /\ fetchCalls = 2
    /\ fetchUsers = {"u1"}
    /\ deleteUsers = {"u1"}
    /\ deleteCalls = 1
    /\ confirmedCount = 1
    /\ deletesSucceeded = 1
    /\ deletesFailed = 0
    /\ lastResolved = [seq |-> 2, outcome |-> "list"]
    /\ alerts = [success |-> 1, error |-> 0]
    /\ consoleLog = {}

NextView ==
    \/ FilterStep
    \/ VerTodas

SpecView == InitView /\ [][NextView]_vars

\* ------------------------------------------------------------------ claims

\* A step in which a DELETE request is issued / fails / a GET resolves.
DeleteIssuedStep == deleteCalls' = deleteCalls + 1
DeleteFailedStep == deletesFailed' = deletesFailed + 1
FetchResolvedStep == lastResolved'.seq # lastResolved.seq
\* A step in which the user accepts the confirmation prompt / declines it
\* (after no answer or an accepted one, so that the step is visible).
AcceptStep == confirmedCount' = confirmedCount + 1
RefuseStep == isConfirmed # "no" /\ isConfirmed' = "no"

\* C1: a confirmed delete whose call fails leaves the stored list and
\* summary exactly as they were (neither the step that issues the DELETE nor
\* the step in which it fails changes them), starts no reload, and produces
\* one error notification and no success notification.
C1_FailedDeleteLeavesData ==
    [][ /\ DeleteIssuedStep =>
              UNCHANGED <<transactions, summary, loading, fetchCalls,
                          pendingFetches, alerts>>
        /\ DeleteFailedStep =>
              /\ UNCHANGED <<transactions, summary, loading, fetchCalls,
                             pendingFetches>>
              /\ alerts' = [alerts EXCEPT !.error = @ + 1] ]_vars

C1_Witness ==
    /\ deletesFailed >= 1
    /\ alerts.error >= 1
    /\ transactions # <<>>
    /\ summary # NullSummary
    /\ ~loading

\* C2 (as claimed): in every step in which the stored list changes, a fetch
\* response that succeeded is the cause; a failed refetch leaves the list.
C2_ListChangesOnlyOnSuccessfulFetch ==
    [][ transactions' # transactions =>
            (FetchResolvedStep /\ lastResolved'.outcome \in DataNames) ]_vars

\* C3 (as claimed): every accepted confirmation issues exactly one DELETE,
\* for the page's userId and the clicked transaction; a reload after mount
\* and a success notification happen only in a step in which a DELETE has
\* just succeeded, so success notifications never outnumber successful
\* DELETEs.
C3_DeleteCalledOncePerConfirm ==
    [][ /\ AcceptStep =>
              /\ deleteCalls' = deleteCalls + 1
              /\ \E id \in DisplayedIds :
                    \E r \in DOMAIN pendingDeletes' :
                        /\ r.userId = userId /\ r.transactionId = id
                        /\ pendingDeletes' = pendingDeletes (+) SetToBag({r})
        /\ DeleteIssuedStep => AcceptStep
        /\ (mounted /\ fetchCalls' # fetchCalls) =>
              deletesSucceeded' = deletesSucceeded + 1
        /\ alerts'.success # alerts.success =>
              deletesSucceeded' = deletesSucceeded + 1
        /\ alerts'.success <= deletesSucceeded' ]_vars

\* C4: declining the prompt closes it and changes nothing else: no DELETE,
\* no reload, no notification, and the data and the view state as before.
C4_DeclineDoesNothing ==
    [][ RefuseStep =>
            UNCHANGED <<locationSearch, mounted, confirmedCount, dataVars,
                        viewVars, netVars, logVars>> ]_vars

\* A prompt was declined after an accepted one whose DELETE succeeded.
C4_Witness ==
    /\ isConfirmed = "no"
    /\ transactions # <<>>
    /\ confirmedCount = 1
    /\ deleteCalls = 1
    /\ deletesSucceeded = 1
    /\ fetchCalls = 2

\* C5: when a load's GET fails, the step ends with the list empty, the
\* summary null and loading false, whatever was stored; it produces no
\* alert, only the console diagnostic.
C5_FailedLoadClearsSilently ==
    [][ (FetchResolvedStep /\ lastResolved'.outcome = "error") =>
            /\ transactions' = <<>>
            /\ summary' = NullSummary
            /\ loading' = FALSE
            /\ alerts' = alerts
            /\ "Error loading data:" \in consoleLog' ]_vars

\* A reload (not the mount's load) failed last, after data had been shown.
C5_Witness ==
    /\ lastResolved.outcome = "error"
    /\ lastResolved.seq >= 2
    /\ deletesSucceeded >= 1
    /\ transactions = <<>>
    /\ summary = NullSummary
    /\ ~loading
    /\ alerts.error = 0

\* C6 (as claimed): with no userId parameter in the URL, what is rendered
\* once loading is over is the access-denied view, never the dashboard.
C6_NoUserIdShowsAccessDenied ==
    (ParamsGet(locationSearch, "userId") = <<>> /\ ~loading) => Screen = "denied"

\* The identifier C7 names for a query: the parameter's value, or
\* 'default_user' when the parameter is absent or empty.
ExpectedUserId ==
    IF \E i \in 1..Len(locationSearch) :
           locationSearch[i][1] = "userId" /\ locationSearch[i][2] # ""
    THEN (CHOOSE kv \in {locationSearch[i] : i \in 1..Len(locationSearch)} :
              kv[1] = "userId")[2]
    ELSE "default_user"

\* C7 (as claimed): once mounted, a GET has been issued, and every GET and
\* DELETE issued carries that one identifier.
C7_RequestsUseParsedUserId ==
    mounted =>
        /\ fetchCalls >= 1
        /\ fetchUsers = {ExpectedUserId}
        /\ deleteUsers \subseteq {ExpectedUserId}

\* C8: GETs issued = 1 (the mount) + successful DELETEs; none before the
\* mount.  So a failed load is not retried and a failed or declined delete
\* issues none.
C8_FetchCount ==
    fetchCalls = (IF mounted THEN 1 ELSE 0) + deletesSucceeded

\* A run with a successful and a failed delete, a declined prompt and a
\* failed load, all settled.
C8_Witness ==
    /\ deletesSucceeded >= 1
    /\ deletesFailed >= 1
    /\ isConfirmed = "no"
    /\ lastResolved.outcome = "error"
    /\ pendingFetches = {}
    /\ BagCardinality(pendingDeletes) = 0

\* C9: with no load in flight, the stored data is that of the GET that
\* resolved last, whatever its place in the order of issue: cleared if it
\* failed; else its summary and its array (which the render may have sorted
\* in place).
C9_LastResolvedWins ==
    (pendingFetches = {} /\ lastResolved.seq >= 1) =>
        IF lastResolved.outcome = "error"
        THEN transactions = <<>> /\ summary = NullSummary
        ELSE /\ summary = ResponseBody(lastResolved.outcome).summary
             /\ transactions \in {Data(lastResolved.outcome),
                                   sort(Data(lastResolved.outcome))}

\* Two reloads overlapped and the one issued first resolved last, with a
\* body other than the one the later call got.
C9_Witness ==
    /\ pendingFetches = {}
    /\ fetchCalls = 3
    /\ lastResolved.seq = 2
    /\ lastResolved.outcome = "A"
    /\ transactions # <<>>
    /\ ~loading

\* The elements of a list.
Range(list) == {list[i] : i \in 1..Len(list)}

\* C10: for the loaded list and every search term and category, the
\* derived list of view expenses holds only expenses and that of view
\* income only incomes; views transactions and dashboard apply no kind
\* filter (their derived list is the two together), and with empty search
\* and category they hold every loaded transaction exactly once.
C10_ViewKindFilter ==
    \A term \in SearchTerms \cup {<<"m">>, <<"c", "a">>},
       cat \in {<<>>} \cup Categories :
        LET exp == getFilteredTransactions(transactions, "expenses", term, cat)
            inc == getFilteredTransactions(transactions, "income", term, cat)
        IN  /\ \A t \in Range(exp) : t.type = "expense"
            /\ \A t \in Range(inc) : t.type = "income"
            /\ \A v \in {"transactions", "dashboard"} :
                  LET all == getFilteredTransactions(transactions, v, term, cat)
                      none == getFilteredTransactions(transactions, v, <<>>, <<>>)
                  IN  /\ Range(all) = Range(exp) \cup Range(inc)
                      /\ Len(all) = Len(exp) + Len(inc)
                      /\ Range(none) = Range(transactions)
                      /\ Len(none) = Len(transactions)

\* The expenses view of a list with both kinds shows a proper part of it.
C10_Witness ==
    /\ currentView = "expenses"
    /\ \E t \in Range(transactions) : t.type = "income"
    /\ filteredTransactions # <<>>
    /\ Len(filteredTransactions) < Len(transactions)
    /\ \E i \in 1..Len(transactions) :
          transactions[i].type = "expense"
          /\ transactions[i] \notin Range(filteredTransactions)
    /\ searchTerm = <<"A", "M">>

\* What the user may type, upper, lower and mixed case.
TypedTerms == SearchTerms \cup {<<"m">>, <<"c", "a">>, <<"M", "E">>, <<"a", "M">>}

\* needle occurs in hay at offset k, letter case ignored.
OccursAt(hay, needle, k) ==
    /\ k + Len(needle) <= Len(hay)
    /\ \A j \in 1..Len(needle) : LowerChar(hay[k + j]) = LowerChar(needle[j])

TermMatches(t, term) ==
    \/ \E k \in 0..Len(t.description) : OccursAt(t.description, term, k)
    \/ \E k \in 0..Len(t.category) : OccursAt(t.category, term, k)

\* C11: with no kind and no category filter, the derived list for a
\* non-empty term holds exactly the loaded transactions in whose description
\* or category the term occurs, letter case ignored, each once; for the empty
\* term it holds all of them.  The list on screen holds only matches of the
\* term in the search box.
C11_SearchIsCaseInsensitiveSubstring ==
    /\ \A term \in TypedTerms :
          LET got == getFilteredTransactions(transactions, "transactions", term, <<>>)
              want == IF term = <<>> THEN Range(transactions)
                      ELSE {t \in Range(transactions) : TermMatches(t, term)}
          IN  Range(got) = want /\ Len(got) = Cardinality(want)
    /\ searchTerm # <<>> =>
          \A t \in Range(filteredTransactions) : TermMatches(t, searchTerm)

\* The search box holds "AM": T1 is listed for its category "Am" alone
\* (description "Merc"), T2 ("Arma", "Me") is not.
C11_Witness ==
    /\ currentView = "transactions"
    /\ searchTerm = <<"A", "M">>
    /\ selectedCategory = <<>>
    /\ T1 \in Range(transactions) /\ T1 \in Range(filteredTransactions)
    /\ T2 \in Range(transactions) /\ T2 \notin Range(filteredTransactions)

\* The kind a view asks for, if any.
KindMatches(t, view) ==
    /\ view = "expenses" => t.type = "expense"
    /\ view = "income" => t.type = "income"

\* C12: for the view of the state and every term and category value, the
\* derived list holds, each once, exactly the loaded transactions that are
\* of the view's kind, match the term (if one is given) and whose category
\* is the selected text itself (if one is selected): "Am" selects neither
\* "am" nor a category it is a part of.
C12_FiltersComposeConjunctively ==
    \A term \in TypedTerms, cat \in {<<>>, <<"A">>} \cup Categories :
        LET got == getFilteredTransactions(transactions, currentView, term, cat)
            want == {t \in Range(transactions) :
                        /\ KindMatches(t, currentView)
                        /\ term # <<>> => TermMatches(t, term)
                        /\ cat # <<>> => t.category = cat}
        IN  Range(got) = want /\ Len(got) = Cardinality(want)

\* Category "Am" is selected in the expenses view with "AM" in the search
\* box: T1 ("Am") is listed; T3 ("am") passes the kind and search filters
\* and is not.
C12_Witness ==
    /\ currentView = "expenses"
    /\ searchTerm = <<"A", "M">>
    /\ selectedCategory = CatAm
    /\ T1 \in Range(transactions) /\ T3 \in Range(transactions)
    /\ Range(filteredTransactions) = {T1}

\* C13: for every view, term and category value, the derived list is in
\* descending order of createdAt: an entry with a later timestamp is never
\* behind one with an earlier timestamp.
C13_SortedNewestFirst ==
    \A view \in ViewModes, term \in SearchTerms, cat \in {<<>>} \cup Categories :
        LET got == getFilteredTransactions(transactions, view, term, cat)
        IN  \A i, j \in 1..Len(got) :
                got[i].createdAt > got[j].createdAt => i < j

\* The stored list is in the backend's order (T4, T1, T6, T3, T5, T2, oldest
\* first at its head) and the list on screen is its matches of "AM", newest
\* first.
C13_Witness ==
    /\ transactions = Data("B")
    /\ currentView = "transactions"
    /\ searchTerm = <<"A", "M">>
    /\ filteredTransactions = <<T6, T1, T3, T4>>

\* The array of the response the stored list came from, in the backend's
\* order.
BackendList ==
    IF lastResolved.outcome \in DataNames THEN Data(lastResolved.outcome) ELSE <<>>

\* The place of t in list.
IndexOf(list, t) == CHOOSE i \in 1..Len(list) : list[i] = t

\* C14: in the list every render derives, whatever the view and the filter
\* values, two transactions with the same createdAt stand in the order in
\* which the backend's response listed them.
C14_TiesKeepBackendOrder ==
    \A i, j \in 1..Len(filteredTransactions) :
        (i < j /\ filteredTransactions[i].createdAt = filteredTransactions[j].createdAt)
            => /\ filteredTransactions[i] \in Range(BackendList)
               /\ filteredTransactions[j] \in Range(BackendList)
               /\ IndexOf(BackendList, filteredTransactions[i])
                      < IndexOf(BackendList, filteredTransactions[j])

\* An earlier render has sorted the stored array of response B in place;
\* the expenses view lists T5, then the ties T1 and T3 in the response's
\* order.
C14_Witness ==
    /\ lastResolved.outcome = "B"
    /\ transactions = sort(Data("B"))
    /\ currentView = "expenses"
    /\ filteredTransactions = <<T5, T1, T3>>

\* C15: the rows on screen are the derived list itself off the dashboard
\* view, and on the dashboard view its first 5 entries, or all n of them
\* when n < 5.
C15_DashboardShowsFirstFive ==
    LET n == Len(filteredTransactions)
        shown == displayedTransactions
    IN  /\ Len(shown) = (IF currentView # "dashboard" THEN n
                          ELSE IF n < 5 THEN n ELSE 5)
        /\ \A i \in 1..Len(shown) : shown[i] = filteredTransactions[i]

\* Eight transactions are loaded, six of them match the term typed in
\* another view; back on the dashboard the five newest of the six are shown.
C15_Witness ==
    /\ currentView = "dashboard"
    /\ Len(transactions) = 8
    /\ searchTerm = <<"A", "M">>
    /\ Len(filteredTransactions) = 6
    /\ displayedTransactions = <<T8, T7, T6, T1, T3>>

\* C16 (as claimed): on the dashboard view the rows on screen are the 5
\* newest of all the loaded transactions (all of them when fewer), whatever
\* searchTerm and selectedCategory hold.
C16_DashboardIgnoresFilters ==
    (currentView = "dashboard" /\ Screen = "dashboard") =>
        LET newest == getFilteredTransactions(transactions, "dashboard", <<>>, <<>>)
        IN  displayedTransactions
                = SubSeq(newest, 1, IF Len(newest) < 5 THEN Len(newest) ELSE 5)

\* C17: the options of the category select are the distinct categories of
\* the loaded transactions, each once, in ascending (code unit) order; they
\* are those of the response as the backend sent it, whatever the view, the
\* term and the selection are and whatever renders have done to the stored
\* array.
C17_CategoriesSortedDistinct ==
    LET cats == getCategories(transactions)
    IN  /\ Range(cats) = {t.category : t \in Range(BackendList)}
        /\ Len(cats) = Cardinality(Range(cats))
        /\ \A i, j \in 1..Len(cats) : i < j => TextLess(cats[i], cats[j])
        /\ cats = getCategories(BackendList)

\* Response B (categories Am, am, Me, the first two twice) is stored, a
\* render has sorted it in place, and a view, a term and a category are set.
C17_Witness ==
    /\ lastResolved.outcome = "B"
    /\ transactions # Data("B")
    /\ currentView = "income"
    /\ searchTerm = <<"A", "M">>
    /\ selectedCategory = CatMe
    /\ getCategories(transactions) = <<CatAm, CatMe, CatLowerAm>>

\* C18: when the load that resolved last returned no transactions and the
\* zero summary, the dashboard screen has the summary cards with zero
\* values (the balance zero or masked), the empty-state message in the list
\* and no chart section.  Whenever the chart section is rendered, the view is
\* dashboard and the summary is not null and has categories; the cards are
\* rendered exactly when the dashboard screen has a summary that is not null.
C18_EmptyResponseRendering ==
    /\ (lastResolved.outcome = "E" /\ Screen = "dashboard") =>
          /\ CardsRendered
          /\ CardValues.totalIncome = 0
          /\ CardValues.totalExpenses = 0
          /\ CardValues.transactionCount = 0
          /\ showBalance => CardValues.balance = 0
          /\ EmptyStateRendered
          /\ ~ChartsRendered
    /\ ChartsRendered =>
          /\ currentView = "dashboard"
          /\ summary # NullSummary
          /\ \E c \in Categories : c \in DOMAIN summary.categorySummary
    /\ CardsRendered <=> (~loading /\ summary # NullSummary)

\* The reload after a successful delete returned the empty body and the
\* dashboard view is on screen.
C18_Witness ==
    /\ lastResolved.outcome = "E"
    /\ lastResolved.seq >= 2
    /\ deletesSucceeded >= 1
    /\ Screen = "dashboard"
    /\ currentView = "dashboard"
    /\ CardsRendered
    /\ EmptyStateRendered

\* C19 (as claimed): rendering never modifies the stored list, so once a
\* load has resolved the stored list is the response's array in the order
\* the backend gave it (empty after a failed load).
C19_DerivedViewIsPure ==
    lastResolved.seq >= 1 => transactions = BackendList

\* C20: a step that calls fetchTransactions puts exactly one GET in
\* flight, to API_URL/transactions/<userId>; a step that calls
\* deleteTransaction exactly one DELETE, to
\* API_URL/transactions/<userId>/<transactionId>.  When a GET resolves, no
\* request is issued in its place: on success the caller stores the body's
\* summary and its transactions array as they came, on failure the caller's
\* catch block runs.  When a DELETE fails, the caller's catch block runs and
\* no request is issued.
C20_OneRequestPerCall ==
    [][ /\ fetchCalls' # fetchCalls =>
              /\ fetchCalls' = fetchCalls + 1
              /\ pendingFetches' = pendingFetches \cup
                    {[seq |-> fetchCalls + 1,
                      url |-> <<API_URL, "/transactions/", userId>>]}
              /\ Cardinality(pendingFetches') = Cardinality(pendingFetches) + 1
        /\ deleteCalls' # deleteCalls =>
              /\ deleteCalls' = deleteCalls + 1
              /\ \E id \in DisplayedIds :
                    pendingDeletes' = pendingDeletes (+) SetToBag({
                        [userId |-> userId, transactionId |-> id,
                         url |-> <<API_URL, "/transactions/", userId, "/", id>>]})
        /\ FetchResolvedStep =>
              /\ fetchCalls' = fetchCalls /\ deleteCalls' = deleteCalls
              /\ pendingFetches' \subseteq pendingFetches
              /\ Cardinality(pendingFetches') = Cardinality(pendingFetches) - 1
              /\ lastResolved'.outcome \in DataNames =>
                    /\ summary' = ResponseBody(lastResolved'.outcome).summary
                    /\ transactions' \in {Data(lastResolved'.outcome),
                                          sort(Data(lastResolved'.outcome))}
              /\ lastResolved'.outcome = "error" =>
                    "Error loading data:" \in consoleLog'
        /\ DeleteFailedStep =>
              /\ fetchCalls' = fetchCalls /\ deleteCalls' = deleteCalls
              /\ BagCardinality(pendingDeletes') = BagCardinality(pendingDeletes) - 1
              /\ "Erro ao excluir transacao:" \in consoleLog' ]_vars

\* A first delete succeeded and its reload returned body A; the DELETE of
\* a second one, for transaction 1 of user u1, is in flight.
C20_Witness ==
    /\ deletesSucceeded = 1
    /\ lastResolved = [seq |-> 2, outcome |-> "A"]
    /\ pendingFetches = {}
    /\ \E r \in DOMAIN pendingDeletes :
          r.url = <<API_URL, "/transactions/", "u1", "/", "1">>

\* C21: a step that starts a load sets loading, a step in which a load's
\* request resolves clears it, and, provided every GET in flight resolves,
\* whenever loading is set it is cleared later: the loading screen never
\* stays for ever.  (No request stays in flight for ever: []<> of "n is not
\* in flight"; loading is cleared after every time it is set: []<>~loading.)
C21_LoadingEventuallyFalse ==
    /\ [][ /\ fetchCalls' # fetchCalls => loading'
           /\ FetchResolvedStep => ~loading' ]_vars
    /\ (\A n \in 1..(MaxDeletes + 1) : []<>(n \notin PendingSeqs))
          => []<>(~loading)

\* Three loads were issued, two of them overlapping; all have resolved, the
\* last one to resolve with a failure, and loading is off.
C21_Witness ==
    /\ fetchCalls = 3
    /\ pendingFetches = {}
    /\ BagCardinality(pendingDeletes) = 0
    /\ lastResolved = [seq |-> 2, outcome |-> "error"]
    /\ ~loading

\* The stored list and summary are the two parts of the body of response d:
\* the list is the response's array, in the order the response had or in
\* the order the render's sort has put that array in.
PartsOfResponse(d) ==
    /\ summary = ResponseBody(d).summary
    /\ transactions \in {ResponseBody(d).transactions,
                         sort(ResponseBody(d).transactions)}

\* C22: the stored list and summary are either the empty list with the null
\* summary or the two parts of one fetch response; the summary changes only
\* in a step in which a load's request resolves, and no step of a delete
\* (issued, succeeded, failed) changes the summary or the set of stored
\* transactions.
C22_SummaryPairedWithList ==
    /\ [](\/ transactions = <<>> /\ summary = NullSummary
          \/ \E d \in DataNames : PartsOfResponse(d))
    /\ [][ /\ summary' # summary => FetchResolvedStep
           /\ (pendingDeletes' # pendingDeletes) =>
                  /\ summary' = summary
                  /\ transactions' = transactions ]_vars

C22_Witness ==
    /\ deletesSucceeded = 1
    /\ lastResolved = [seq |-> 2, outcome |-> "B"]
    /\ PartsOfResponse("B")
    /\ transactions # ResponseBody("B").transactions
    /\ pendingFetches = {}

\* C23: whenever loading is false no GET of a load is in flight, overlapping
\* reloads included.
C23_NotLoadingMeansNoFetch == ~loading => pendingFetches = {}

\* C24: in the step that raises the success notification of a delete, the
\* reload that delete triggered (the latest loadData call) has resolved:
\* its GET is no longer in flight.
C24_SuccessAlertAfterReload ==
    [][alerts'.success # alerts.success => fetchCalls' \notin PendingSeqs']_vars

\* C25: selectedCategory is always '' or one of the categories of the
\* stored transactions (the options of the category select).
C25_SelectedCategoryIsListed ==
    selectedCategory = <<>> \/ selectedCategory \in CategorySet(transactions)

\* C26: while loading is true the loading screen is what is rendered,
\* whatever the user id (it comes before the access-denied view and before
\* the dashboard), no delete button is on screen, and a step that requests
\* a delete (the confirmation prompt answered, the DELETE issued) starts in
\* a state where loading is false.
C26_LoadingScreenFirst ==
    /\ [](loading =>
            /\ Screen = "loading"
            /\ \A uid \in {"", "u1", "default_user"} : ScreenOf(loading, uid) = "loading"
            /\ DeleteButtons = {})
    /\ [][(AcceptStep \/ RefuseStep \/ DeleteIssuedStep) => ~loading]_vars

\* A reload is running over a loaded list, with a second DELETE in flight.
C26_Witness ==
    /\ loading
    /\ mounted
    /\ transactions # <<>>
    /\ deletesSucceeded = 1
    /\ BagCardinality(pendingDeletes) = 1
    /\ Screen = "loading"

\* A step of a reload: loadData is called, or its request resolves.
ReloadStep == fetchCalls' # fetchCalls \/ FetchResolvedStep

\* C27: a step of a reload, its start or its resolution with a body or with
\* a failure, leaves currentView, searchTerm, selectedCategory, showBalance
\* and sidebarOpen as they were.
C27_ReloadKeepsViewState ==
    [][ReloadStep => UNCHANGED <<currentView, searchTerm, selectedCategory,
                                 showBalance, sidebarOpen>>]_vars

\* The reload after a delete has resolved and every one of the five holds
\* the value the user gave it before the delete.
C27_Witness ==
    /\ deletesSucceeded = 1
    /\ lastResolved.seq = 2
    /\ pendingFetches = {}
    /\ currentView = "expenses"
    /\ searchTerm = <<"A", "M">>
    /\ selectedCategory = CatMe
    /\ ~showBalance
    /\ sidebarOpen

\* C28: currentView is one of the four modes and starts as dashboard, and a
\* step that changes the active view leaves searchTerm, selectedCategory,
\* the stored transactions, the summary and showBalance as they were, and
\* sidebarOpen either as it was or closed (the sidebar item).
C28_NavigationOnlyChangesView ==
    /\ currentView = "dashboard"
    /\ [](currentView \in ViewModes)
    /\ [][currentView' # currentView =>
             /\ UNCHANGED <<searchTerm, selectedCategory, transactions, summary,
                            showBalance>>
             /\ sidebarOpen' \in {sidebarOpen, FALSE}]_vars

\* C29: a step that changes showBalance changes nothing else: no variable
\* of the view state, of the data, of the network or of the log (so the
\* click does not navigate to the dashboard view, and a second click gives
\* back the state before the first); the render that follows finds the
\* stored array as the previous render left it.
C29_ToggleOnlyFlipsBalance ==
    /\ [][showBalance' # showBalance =>
             /\ showBalance' = ~showBalance
             /\ UNCHANGED <<locationSearch, mounted, isConfirmed, confirmedCount,
                            currentView, searchTerm, selectedCategory, sidebarOpen,
                            dataVars, netVars, logVars>>]_vars
    /\ [](UIReady => AfterRender(transactions, loading, currentView, searchTerm,
                                 selectedCategory) = transactions)

\* The balance is masked on a view other than the dashboard, the list loaded.
C29_Witness ==
    /\ ~showBalance
    /\ UIReady
    /\ currentView = "income"
    /\ transactions # <<>>
    /\ CardValues.balance = "hidden"

\* C30: two DELETE requests with the same URL carry the same user id and
\* the same transaction id, for identifiers over an alphabet with '/'.
C30_DeleteUrlInjective ==
    \A r1 \in BagToSet(pendingDeletes), r2 \in BagToSet(pendingDeletes) :
        r1.url = r2.url =>
            r1.userId = r2.userId /\ r1.transactionId = r2.transactionId

=============================================================================
